---- MODULE Spec2Model ----
(***************************************************************************)
(* Model of pioinstaller/penv.py: creation of the PlatformIO Core virtual  *)
(* environment.  One run of create_core_penv is a sequential program; its  *)
(* position is pc.  Every external call (a subprocess, a download, the     *)
(* portable-Python fetch, a file write) is a nondeterministic choice over  *)
(* the outcomes the call can have.  The variable log records every         *)
(* external call and every return of a modelled function, in order.        *)
(***************************************************************************)
EXTENDS Integers, Sequences, FiniteSets, TLC

VARIABLES
    pythons,            \* what python.find_compatible_pythons() yields, in order
    is_portable,        \* what python.is_portable() answers
    portable_available, \* whether python.fetch_portable_python() yields an interpreter
    pc,                 \* position in create_core_penv and its callees
    idx,                \* position of the for loop of create_core_penv in pythons
    phase,              \* which call site of create_virtualenv is active
    python_exe,         \* the local python_exe
    k,                  \* position of the for loop of create_with_local_venv
    result_dir,         \* the local result_dir of create_core_penv
    fs,                 \* the files under penv_dir: <<name, index in log of the writer>>
    log,                \* the calls made so far
    pip_ret,            \* what update_pip returned: "True", "False", None before
    status,             \* "running", "returned" or "raised"
    exc,                \* the exception create_core_penv raised
    raised_in,          \* the function the exception came out of
    retval,             \* what create_core_penv returned
    leftover            \* whether the latest strategy process left files behind

\* The State Recorder on its own (load_state, save_state and what happens to
\* penv_dir around them).
VARIABLES
    sr_disk,            \* penv_dir: whether it exists, and its file state.json
    sr_pre,             \* sr_disk before the latest operation
    sr_log              \* the State Recorder operations so far, with their results

sr_vars == <<sr_disk, sr_pre, sr_log>>

\* Two runs of create_core_penv against the same penv_dir.
VARIABLES
    r_pc,               \* each run's position
    r_k,                \* each run's position in venv_cmd_options
    r_result,           \* each run's result_dir
    r_status,           \* each run: "running", "returned" or "raised"
    r_clobbered,        \* each run: another run cleared penv_dir after this one built it
    r_report,           \* each run: what penv_dir held when the run returned
    r_disk,             \* the files under penv_dir: <<name, run that wrote it>>
    r_last              \* the latest step: [op, run]

race_vars == <<r_pc, r_k, r_result, r_status, r_clobbered, r_report, r_disk, r_last>>

\* What a run of create_core_penv on its own leaves alone.
aux_vars == <<sr_vars, race_vars>>

vars == <<pythons, is_portable, portable_available, pc, idx, phase, python_exe, k,
          result_dir, fs, log, pip_ret, status, exc, raised_in, retval, leftover>>

\* The largest number of interpreters the discovery yields.
MaxPythons == 2

None == "None"
penv_dir == "penv"

\* python_exe values: discovered interpreters are 1..MaxPythons.
PORTABLE == 0
ENV_PYTHON == -1

\* python_exe before the first assignment to it.
UNBOUND == -2

\* Outcomes of subprocess.run(..., check=True) and subprocess.check_output.
ProcResults == {"ok", "CalledProcessError", "OSError"}

\* Every exception of the model derives from Exception.
Exceptions == {"CalledProcessError", "OSError", "PIOInstallerException"}

Ev(op, py, arg, res) == [op |-> op, py |-> py, arg |-> arg, res |-> res]

RECURSIVE Perms(_)
Perms(S) ==
    IF S = {} THEN {<<>>}
    ELSE UNION {{<<x>> \o p : p \in Perms(S \ {x})} : x \in S}

\* Ordered lists of distinct interpreters, the empty list included.
PythonLists == UNION {Perms(S) : S \in SUBSET (1..MaxPythons)}

\* The variables of the other specifications, at rest.
SrIdle ==
    /\ sr_disk = None
    /\ sr_pre = None
    /\ sr_log = <<>>

RaceIdle ==
    /\ r_pc = <<>>
    /\ r_k = <<>>
    /\ r_result = <<>>
    /\ r_status = <<>>
    /\ r_clobbered = <<>>
    /\ r_report = <<>>
    /\ r_disk = {}
    /\ r_last = None

AuxIdle == SrIdle /\ RaceIdle

InitialFiles == {{}, {<<"stale", 0>>}, {<<"stale", 0>>, <<"state.json", 0>>}}

Init ==
    /\ pythons \in PythonLists
    /\ is_portable \in BOOLEAN
    /\ portable_available \in BOOLEAN
    /\ pc = "loop"
    /\ idx = 1
    /\ phase = "loop"
    /\ python_exe = UNBOUND
    /\ k = 1
    /\ result_dir = None
    /\ fs \in InitialFiles
    /\ log = <<>>
    /\ pip_ret = None
    /\ status = "running"
    /\ exc = None
    /\ raised_in = None
    /\ retval = None
    /\ leftover = FALSE
    /\ AuxIdle

(***************************************************************************)
(* create_with_local_venv                                                  *)
(***************************************************************************)
venv_cmd_options_repeated ==
    << "python -m venv",
       "python -m virtualenv -p python",
       "virtualenv -p python",
       "python -m virtualenv",
       "virtualenv",
       "virtualenv" >>

\* The five commands of create_with_local_venv, in list order.
venv_cmd_options ==
    << "python -m venv",
       "python -m virtualenv -p python",
       "virtualenv -p python",
       "python -m virtualenv",
       "virtualenv" >>

\* util.safe_remove_dir: the directory is gone afterwards.
safe_remove_dir(files) == {}

LocalClearFiles_once(j, files) == IF j = 1 THEN safe_remove_dir(files) ELSE files

LocalClearFiles_never(j, files) == files

\* The directory as the j-th command of the loop finds it.
LocalClearFiles(j, files) == safe_remove_dir(files)

LocalStep_fallthrough(j, ok) ==
    IF j < Len(venv_cmd_options) THEN [to |-> "next", k |-> j + 1]
    ELSE IF ok THEN [to |-> "return", k |-> j]
    ELSE [to |-> "raise", k |-> j]

\* Where the loop goes after the j-th command ended.
LocalStep(j, ok) ==
    IF ok THEN [to |-> "return", k |-> j]
    ELSE IF j < Len(venv_cmd_options) THEN [to |-> "next", k |-> j + 1]
    ELSE [to |-> "raise", k |-> j]

\* What a process started as call number n leaves under penv_dir.
ProcessFiles(res, left, n) ==
    IF res = "ok" THEN {<<"env", n>>}
    ELSE IF left THEN {<<"partial", n>>}
    ELSE {}

\* A process that could not be launched writes nothing.
Leftovers(res) == IF res = "CalledProcessError" THEN BOOLEAN ELSE {FALSE}

Outcome(res) == IF res = "ok" THEN "ok" ELSE "failed"

(***************************************************************************)
(* create_core_penv: the loop over the discovered interpreters             *)
(***************************************************************************)
LoopAfterCandidate_nobreak(res) == "loop"

\* The if/break of the for loop.
LoopAfterCandidate(res) == IF res # None THEN "after_loop" ELSE "loop"

\* create_virtualenv returns res to its call site.
CvReturn(res, events) ==
    /\ result_dir' = res
    /\ log' = log \o events \o <<Ev("create_virtualenv_ret", python_exe, "", res)>>
    /\ IF phase = "loop"
       THEN /\ pc' = LoopAfterCandidate(res)
            /\ idx' = idx + 1
       ELSE /\ pc' = "check_result"
            /\ idx' = idx

LoopNext ==
    /\ pc = "loop"
    /\ IF idx <= Len(pythons)
       THEN /\ python_exe' = pythons[idx]
            /\ k' = 1
            /\ pc' = "local_clear"
       ELSE /\ pc' = "after_loop"
            /\ UNCHANGED <<python_exe, k>>
    /\ UNCHANGED <<pythons, is_portable, portable_available, idx, phase, result_dir,
                   fs, log, pip_ret, status, exc, raised_in, retval, leftover>>
    /\ UNCHANGED aux_vars

LocalClear ==
    /\ pc = "local_clear"
    /\ fs' = LocalClearFiles(k, fs)
    /\ pc' = "local_run"
    /\ UNCHANGED <<pythons, is_portable, portable_available, idx, phase, python_exe, k,
                   result_dir, log, pip_ret, status, exc, raised_in, retval, leftover>>
    /\ UNCHANGED aux_vars

TryRemoteOnLocalError_no == FALSE

\* create_virtualenv: the except branch around create_with_local_venv calls
\* create_with_remote_venv.
TryRemoteOnLocalError == TRUE

LocalRun ==
    /\ pc = "local_run"
    /\ \E res \in ProcResults : \E left \in Leftovers(res) :
        LET ev == Ev("local", python_exe, venv_cmd_options[k], Outcome(res))
            nx == LocalStep(k, res = "ok")
        IN  /\ fs' = fs \cup ProcessFiles(res, left, Len(log) + 1)
            /\ leftover' = left
            /\ IF nx.to = "return"
               THEN /\ CvReturn(penv_dir, <<ev>>)
                    /\ k' = k
               ELSE IF nx.to = "next"
               THEN /\ log' = Append(log, ev)
                    /\ k' = nx.k
                    /\ pc' = "local_clear"
                    /\ UNCHANGED <<result_dir, idx>>
               ELSE IF TryRemoteOnLocalError
               THEN /\ log' = Append(log, ev)
                    /\ k' = k
                    /\ pc' = "remote_clear"
                    /\ UNCHANGED <<result_dir, idx>>
               ELSE /\ CvReturn(None, <<ev>>)
                    /\ k' = k
    /\ UNCHANGED <<pythons, is_portable, portable_available, phase, python_exe,
                   pip_ret, status, exc, raised_in, retval>>
    /\ UNCHANGED aux_vars

(***************************************************************************)
(* create_with_remote_venv                                                 *)
(***************************************************************************)
RemoteClear ==
    /\ pc = "remote_clear"
    /\ fs' = safe_remove_dir(fs)
    /\ log' = Append(log, Ev("remote", python_exe, "safe_remove_dir", "ok"))
    /\ pc' = "remote_download"
    /\ UNCHANGED <<pythons, is_portable, portable_available, idx, phase, python_exe, k,
                   result_dir, pip_ret, status, exc, raised_in, retval, leftover>>
    /\ UNCHANGED aux_vars

\* util.download_file: the local path, or None.
DownloadResults == {"path", None}

RemoteAfterDownload_unchecked(path) == "run"

\* if not venv_script_path: raise
RemoteAfterDownload(path) == IF path = None THEN "raise" ELSE "run"

RemoteDownload ==
    /\ pc = "remote_download"
    /\ \E path \in DownloadResults :
        LET ev == Ev("download_virtualenv", python_exe, "virtualenv.pyz", path)
        IN  IF RemoteAfterDownload(path) = "raise"
            THEN CvReturn(None, <<ev>>)
            ELSE /\ log' = Append(log, ev)
                 /\ pc' = "remote_run"
                 /\ UNCHANGED <<result_dir, idx>>
    /\ UNCHANGED <<pythons, is_portable, portable_available, phase, python_exe, k, fs,
                   pip_ret, status, exc, raised_in, retval, leftover>>
    /\ UNCHANGED aux_vars

RemoteRun ==
    /\ pc = "remote_run"
    /\ \E res \in ProcResults : \E left \in Leftovers(res) :
        /\ fs' = fs \cup ProcessFiles(res, left, Len(log) + 1)
        /\ leftover' = left
        /\ CvReturn(IF res = "ok" THEN penv_dir ELSE None,
                    <<Ev("remote_run", python_exe, "python virtualenv.pyz", Outcome(res))>>)
    /\ UNCHANGED <<pythons, is_portable, portable_available, phase, python_exe, k,
                   pip_ret, status, exc, raised_in, retval>>
    /\ UNCHANGED aux_vars

(***************************************************************************)
(* create_core_penv: the portable interpreter and the result               *)
(***************************************************************************)
ShouldFetchPortable_always(res, portable) == ~portable

\* if not result_dir and not python.is_portable()
ShouldFetchPortable(res, portable) == res = None /\ ~portable

FetchPortable ==
    /\ pc = "after_loop"
    /\ ShouldFetchPortable(result_dir, is_portable)
    /\ log' = Append(log, Ev("fetch_portable_python", PORTABLE, "",
                             IF portable_available THEN "path" ELSE None))
    /\ IF portable_available
       THEN /\ python_exe' = PORTABLE
            /\ phase' = "portable"
            /\ k' = 1
            /\ pc' = "local_clear"
       ELSE /\ pc' = "check_result"
            /\ UNCHANGED <<python_exe, phase, k>>
    /\ UNCHANGED <<pythons, is_portable, portable_available, idx, result_dir, fs,
                   pip_ret, status, exc, raised_in, retval, leftover>>
    /\ UNCHANGED aux_vars

SkipPortable ==
    /\ pc = "after_loop"
    /\ ~ShouldFetchPortable(result_dir, is_portable)
    /\ pc' = "check_result"
    /\ UNCHANGED <<pythons, is_portable, portable_available, idx, phase, python_exe, k,
                   result_dir, fs, log, pip_ret, status, exc, raised_in, retval, leftover>>
    /\ UNCHANGED aux_vars

\* The three statements after the environment was built, in order.
PostBuild_swapped == <<"update_pip", "init_state", "return">>

PostBuild == <<"init_state", "update_pip", "return">>

PostBuildNext(p) ==
    LET i == CHOOSE j \in 1..Len(PostBuild) : PostBuild[j] = p
    IN  PostBuild[i + 1]

BuildFailed_never(res) == FALSE

\* if not result_dir: raise
BuildFailed(res) == res = None

CheckResult ==
    /\ pc = "check_result"
    /\ IF BuildFailed(result_dir)
       THEN /\ status' = "raised"
            /\ exc' = "PIOInstallerException"
            /\ raised_in' = "create_core_penv"
            /\ pc' = "done"
            /\ UNCHANGED python_exe
       ELSE /\ python_exe' = ENV_PYTHON
            /\ pc' = PostBuild[1]
            /\ UNCHANGED <<status, exc, raised_in>>
    /\ UNCHANGED <<pythons, is_portable, portable_available, idx, phase, k, result_dir,
                   fs, log, pip_ret, retval, leftover>>
    /\ UNCHANGED aux_vars

(***************************************************************************)
(* init_state                                                              *)
(***************************************************************************)
\* check_output of the version query, then save_state's open(..., "w").
InitStateResults == {"ok", "CalledProcessError", "OSError"}

InitState ==
    /\ pc = "init_state"
    /\ \E res \in InitStateResults :
        /\ log' = Append(log, Ev("init_state", python_exe, "", res))
        /\ IF res = "ok"
           THEN /\ fs' = {f \in fs : f[1] # "state.json"}
                            \cup {<<"state.json", Len(log) + 1>>}
                /\ pc' = PostBuildNext("init_state")
                /\ UNCHANGED <<status, exc, raised_in>>
           ELSE /\ status' = "raised"
                /\ exc' = res
                /\ raised_in' = "init_state"
                /\ pc' = "done"
                /\ fs' = fs
    /\ UNCHANGED <<pythons, is_portable, portable_available, idx, phase, python_exe, k,
                   result_dir, pip_ret, retval, leftover>>
    /\ UNCHANGED aux_vars

(***************************************************************************)
(* update_pip                                                              *)
(***************************************************************************)
UpdatePipCatches_narrow(e) == e = "CalledProcessError"

\* except Exception
UpdatePipCatches(e) == e \in Exceptions

\* An exception e reaches the outer try of update_pip.
PipExcept(e, events) ==
    IF UpdatePipCatches(e)
    THEN /\ pip_ret' = "False"
         /\ log' = log \o events \o <<Ev("update_pip_ret", python_exe, "", "False")>>
         /\ pc' = PostBuildNext("update_pip")
         /\ UNCHANGED <<status, exc, raised_in>>
    ELSE /\ status' = "raised"
         /\ exc' = e
         /\ raised_in' = "update_pip"
         /\ log' = log \o events
         /\ pc' = "done"
         /\ UNCHANGED pip_ret

PipReturnTrue(events) ==
    /\ pip_ret' = "True"
    /\ log' = log \o events \o <<Ev("update_pip_ret", python_exe, "", "True")>>
    /\ pc' = PostBuildNext("update_pip")
    /\ UNCHANGED <<status, exc, raised_in>>

PipConfFiles_truncate_dir(files, n) == {<<"pip.conf", n>>}

\* open(os.path.join(penv_dir, "pip.conf"), "w") and the write, as call number n.
PipConfFiles(files, n) == files \cup {<<"pip.conf", n>>}

ConfHandler_swallow(res) == "primary"

\* The pip.conf write sits in the outer try, before the inner one.
ConfHandler(res) == IF res = "ok" THEN "primary" ELSE "except"

PipConf ==
    /\ pc = "update_pip"
    /\ \E res \in {"ok", "OSError"} :
        LET ev == Ev("pip_conf", python_exe, "pip.conf", res)
        IN  /\ fs' = (IF res = "ok" THEN PipConfFiles(fs, Len(log) + 1) ELSE fs)
            /\ IF ConfHandler(res) = "primary"
               THEN /\ log' = Append(log, ev)
                    /\ pc' = "pip_primary"
                    /\ UNCHANGED <<pip_ret, status, exc, raised_in>>
               ELSE PipExcept(res, <<ev>>)
    /\ UNCHANGED <<pythons, is_portable, portable_available, idx, phase, python_exe, k,
                   result_dir, retval, leftover>>
    /\ UNCHANGED aux_vars

PrimaryHandler_always_fallback(res) ==
    IF res = "OSError" THEN "except" ELSE "fallback"

PrimaryHandler_no_fallback(res) ==
    IF res = "ok" THEN "true" ELSE "except"

\* The inner try: except subprocess.CalledProcessError
PrimaryHandler(res) ==
    IF res = "ok" THEN "true"
    ELSE IF res = "CalledProcessError" THEN "fallback"
    ELSE "except"

PipPrimary ==
    /\ pc = "pip_primary"
    /\ \E res \in ProcResults :
        LET ev == Ev("pip_primary", python_exe, "python -m pip install -U pip", res)
            h == PrimaryHandler(res)
        IN  IF h = "true" THEN PipReturnTrue(<<ev>>)
            ELSE IF h = "fallback"
            THEN /\ log' = Append(log, ev)
                 /\ pc' = "pip_download"
                 /\ UNCHANGED <<pip_ret, status, exc, raised_in>>
            ELSE PipExcept(res, <<ev>>)
    /\ UNCHANGED <<pythons, is_portable, portable_available, idx, phase, python_exe, k,
                   result_dir, fs, retval, leftover>>
    /\ UNCHANGED aux_vars

\* util.download_file(PIP_URL, get_pip_path): the result is not looked at.
PipDownload ==
    /\ pc = "pip_download"
    /\ \E path \in DownloadResults :
        log' = Append(log, Ev("download_get_pip", python_exe, "get-pip.py", path))
    /\ pc' = "pip_fallback"
    /\ UNCHANGED <<pythons, is_portable, portable_available, idx, phase, python_exe, k,
                   result_dir, fs, pip_ret, status, exc, raised_in, retval, leftover>>
    /\ UNCHANGED aux_vars

FallbackHandler_ignore(res) == "true"

\* subprocess.run([python_exe, get_pip_path], check=True) in the except branch
FallbackHandler(res) == IF res = "ok" THEN "true" ELSE "except"

PipFallback ==
    /\ pc = "pip_fallback"
    /\ \E res \in ProcResults :
        LET ev == Ev("pip_fallback", python_exe, "python get-pip.py", res)
        IN  IF FallbackHandler(res) = "true" THEN PipReturnTrue(<<ev>>)
            ELSE PipExcept(res, <<ev>>)
    /\ UNCHANGED <<pythons, is_portable, portable_available, idx, phase, python_exe, k,
                   result_dir, fs, retval, leftover>>
    /\ UNCHANGED aux_vars

\* return result_dir
Return ==
    /\ pc = "return"
    /\ status' = "returned"
    /\ retval' = result_dir
    /\ pc' = "done"
    /\ UNCHANGED <<pythons, is_portable, portable_available, idx, phase, python_exe, k,
                   result_dir, fs, log, pip_ret, exc, raised_in, leftover>>
    /\ UNCHANGED aux_vars

Next ==
    \/ LoopNext
    \/ LocalClear
    \/ LocalRun
    \/ RemoteClear
    \/ RemoteDownload
    \/ RemoteRun
    \/ FetchPortable
    \/ SkipPortable
    \/ CheckResult
    \/ InitState
    \/ PipConf
    \/ PipPrimary
    \/ PipDownload
    \/ PipFallback
    \/ Return

Spec == Init /\ [][Next]_vars

\* The run is one thread of control: while a step is possible, one is taken.
\* Every external call is taken to return.
FairSpec == Spec /\ WF_vars(Next)

(***************************************************************************)
(* Reading the log                                                         *)
(***************************************************************************)
LogIdx == 1..Len(log)

OpIdx(op) == {i \in LogIdx : log[i].op = op}

OpIdxOf(op, c) == {i \in LogIdx : log[i].op = op /\ log[i].py = c}

\* A strategy attempt: one local command, or one call of create_with_remote_venv.
AttemptIdx == OpIdx("local") \cup OpIdx("remote")

\* A strategy process that exited without error.
SuccessIdx == {i \in OpIdx("local") \cup OpIdx("remote_run") : log[i].res = "ok"}

\* The interpreters that got at least one attempt.
Tried == {log[i].py : i \in AttemptIdx}

LocalsOf(c) == SelectSeq(log, LAMBDA e : e.op = "local" /\ e.py = c)

FailedLocalsBefore(c, n) ==
    {i \in OpIdxOf("local", c) : i < n /\ log[i].res = "failed"}

\* The remote strategy of c was attempted and failed before position n.
RemoteFailedBefore(c, n) ==
    \E r \in OpIdxOf("remote", c) :
        \/ /\ r + 1 < n
           /\ log[r + 1] = Ev("download_virtualenv", c, "virtualenv.pyz", None)
        \/ /\ r + 2 < n
           /\ log[r + 2] = Ev("remote_run", c, "python virtualenv.pyz", "failed")

Pos(c) == CHOOSE m \in 1..Len(pythons) : pythons[m] = c

(***************************************************************************)
(* C1: in create_with_local_venv the commands run in list order, each at   *)
(* most once; only the last command run can have succeeded, so when the    *)
(* k-th is the first to succeed the commands 1..k-1 ran once each before   *)
(* it and k+1..5 never run; the call then returns penv_dir, which          *)
(* create_virtualenv hands on.                                             *)
(***************************************************************************)
C1_FirstLocalSuccessStops ==
    \A c \in Tried :
        LET L == LocalsOf(c)
        IN  /\ Len(L) <= Len(venv_cmd_options)
            /\ \A j \in 1..Len(L) : L[j].arg = venv_cmd_options[j]
            /\ \A j \in 1..(Len(L) - 1) : L[j].res = "failed"
            /\ \A i \in OpIdxOf("local", c) :
                log[i].res = "ok" =>
                    /\ i + 1 <= Len(log)
                    /\ log[i + 1] = Ev("create_virtualenv_ret", c, "", penv_dir)
                    /\ \A j \in AttemptIdx : j > i => log[j].py # c

C1_Witness ==
    \E c \in Tried :
        /\ Len(LocalsOf(c)) = 3
        /\ LocalsOf(c)[3].res = "ok"
        /\ pc = "done"

(***************************************************************************)
(* C2: the discovered interpreters are tried in the order of pythons; an   *)
(* interpreter gets its first attempt only after its predecessor's five    *)
(* local commands and remote strategy were attempted and failed; after a   *)
(* success no later discovered interpreter is attempted; what is returned  *)
(* is penv_dir holding the environment the successful attempt built.       *)
(***************************************************************************)
C2_CandidatesInOrder ==
    LET D == SelectSeq(log, LAMBDA e : e.op \in {"local", "remote"} /\ e.py # PORTABLE)
        successes == SuccessIdx
    IN  /\ \A n \in 1..(Len(D) - 1) : Pos(D[n].py) <= Pos(D[n + 1].py)
        /\ Len(D) > 0 => D[1].py = pythons[1]
        /\ \A m \in 1..(Len(pythons) - 1) :
            LET A == OpIdxOf("local", pythons[m + 1]) \cup OpIdxOf("remote", pythons[m + 1])
            IN  A # {} =>
                    LET first == CHOOSE j \in A : \A x \in A : j <= x
                    IN  /\ Cardinality(FailedLocalsBefore(pythons[m], first))
                            = Len(venv_cmd_options)
                        /\ RemoteFailedBefore(pythons[m], first)
        /\ \A i \in successes :
            log[i].py # PORTABLE =>
                \A j \in (i + 1)..Len(log) :
                    ~(log[j].op \in {"local", "remote"} /\ log[j].py # PORTABLE)
        /\ status = "returned" =>
            /\ retval = penv_dir
            /\ \E i \in successes :
                /\ <<"env", i>> \in fs
                /\ \A j \in successes : j = i

C2_Witness ==
    /\ pc = "done"
    /\ status = "returned"
    /\ Len(pythons) = 2
    /\ \E i \in SuccessIdx : log[i].py = pythons[2] /\ log[i].op = "local"
    /\ OpIdxOf("remote_run", pythons[1]) # {}

(***************************************************************************)
(* C3: for each interpreter handed to create_virtualenv the remote         *)
(* strategy is attempted at most once, never after a local success, only   *)
(* directly after the fifth local failure, and always before               *)
(* create_virtualenv returns for an interpreter whose five local commands  *)
(* failed, hence before any attempt with another interpreter.              *)
(***************************************************************************)
C3_RemoteOncePerCandidate ==
    LET attempts == AttemptIdx
    IN  \A c \in Tried :
            LET locals == OpIdxOf("local", c)
                remotes == OpIdxOf("remote", c)
                local_ok == \E i \in locals : log[i].res = "ok"
            IN  /\ Cardinality(remotes) <= 1
                /\ local_ok => remotes = {}
                /\ \A r \in remotes :
                    /\ Cardinality(FailedLocalsBefore(c, r)) = Len(venv_cmd_options)
                    /\ log[r - 1] =
                        Ev("local", c, venv_cmd_options[Len(venv_cmd_options)], "failed")
                /\ \A i \in OpIdxOf("create_virtualenv_ret", c) :
                    Cardinality(FailedLocalsBefore(c, i)) = Len(venv_cmd_options)
                        => \E r \in remotes : r < i
                /\ \A j \in attempts :
                    (log[j].py # c /\ \E i \in locals : i < j)
                        => \/ local_ok
                           \/ \E r \in remotes : r < j

C3_Witness ==
    \E c \in Tried :
        /\ OpIdxOf("remote", c) # {}
        /\ \E j \in AttemptIdx : log[j].py # c /\ \A r \in OpIdxOf("remote", c) : r < j

(***************************************************************************)
(* C4: a run in which no strategy process succeeded and the portable fetch *)
(* answered None ends raising PIOInstallerException out of                 *)
(* create_core_penv itself; init_state and update_pip are never called     *)
(* without a successful strategy.                                          *)
(***************************************************************************)
C4_BuildFailureIsFatal ==
    /\ (SuccessIdx = {}) =>
        OpIdx("init_state") \cup OpIdx("pip_conf") \cup OpIdx("update_pip_ret") = {}
    /\ (/\ pc = "done"
        /\ SuccessIdx = {}
        /\ \E f \in OpIdx("fetch_portable_python") : log[f].res = None) =>
            /\ status = "raised"
            /\ exc = "PIOInstallerException"
            /\ raised_in = "create_core_penv"
            /\ pip_ret = None

C4_Witness ==
    /\ pc = "done"
    /\ Len(pythons) = 2
    /\ Cardinality(OpIdx("remote")) = 2
    /\ \E f \in OpIdx("fetch_portable_python") : log[f].res = None
    /\ status = "raised"

(***************************************************************************)
(* C5: whenever a strategy process is about to be launched (and while the  *)
(* remote script is downloaded) penv_dir holds no file; straight after a   *)
(* successful strategy it holds exactly what that one process wrote,       *)
(* whatever the earlier attempts left behind.                              *)
(***************************************************************************)
C5_ClearedBeforeEveryStrategy ==
    /\ pc \in {"local_run", "remote_download", "remote_run"} => fs = {}
    /\ (result_dir = penv_dir /\ pc \in {"loop", "after_loop", "check_result", "init_state"})
        => \E i \in SuccessIdx : fs = {<<"env", i>>}

C5_Witness ==
    /\ pc = "local_run"
    /\ k = 3
    /\ python_exe = PORTABLE
    /\ leftover
    /\ fs = {}

(***************************************************************************)
(* Reading the log of update_pip                                           *)
(***************************************************************************)
HasRes(op, results) == \E i \in OpIdx(op) : log[i].res \in results

PipFailures == {"CalledProcessError", "OSError"}

\* update_pip is past its last statement.
PipOver == \/ pip_ret # None
           \/ raised_in = "update_pip"

(***************************************************************************)
(* C6, as claimed: update_pip returns True whenever the primary command    *)
(* failed and the fallback script run succeeded, and returns False only    *)
(* when the primary command and the fallback script were both attempted    *)
(* and both failed.                                                        *)
(***************************************************************************)
C6_FalseOnlyWhenBothFailed ==
    /\ (HasRes("pip_primary", PipFailures) /\ HasRes("pip_fallback", {"ok"}))
        => pip_ret = "True"
    /\ pip_ret = "False"
        => HasRes("pip_primary", PipFailures) /\ HasRes("pip_fallback", PipFailures)

(***************************************************************************)
(* C6, amended: update_pip returns True whenever the primary command       *)
(* failed and the fallback script run succeeded; it returns False exactly  *)
(* when the pip.conf write failed, or the primary command could not be     *)
(* launched, or the primary command exited non-zero and the fallback       *)
(* script run failed.                                                      *)
(***************************************************************************)
C6_FalseIffAStepRaised ==
    /\ (HasRes("pip_primary", PipFailures) /\ HasRes("pip_fallback", {"ok"}))
        => pip_ret = "True"
    /\ PipOver =>
        (pip_ret = "False" <=>
            \/ HasRes("pip_conf", {"OSError"})
            \/ HasRes("pip_primary", {"OSError"})
            \/ /\ HasRes("pip_primary", {"CalledProcessError"})
               /\ HasRes("pip_fallback", PipFailures))

C6_Witness ==
    /\ pc = "done"
    /\ pip_ret = "False"
    /\ HasRes("pip_conf", {"OSError"})
    /\ OpIdx("pip_primary") = {}
    /\ OpIdx("pip_fallback") = {}

(***************************************************************************)
(* C7: when the primary upgrade command succeeds update_pip returns True   *)
(* and neither downloads nor runs the fallback installer script.           *)
(***************************************************************************)
C7_PrimarySuccessSkipsFallback ==
    HasRes("pip_primary", {"ok"}) =>
        /\ pip_ret = "True"
        /\ OpIdx("download_get_pip") = {}
        /\ OpIdx("pip_fallback") = {}

C7_Witness ==
    /\ pc = "done"
    /\ HasRes("pip_primary", {"ok"})
    /\ status = "returned"

(***************************************************************************)
(* C8: no exception leaves update_pip: once its pip.conf write was         *)
(* attempted the call ends with a boolean for every outcome of its steps,  *)
(* and a run in which it returned False still returns penv_dir.            *)
(***************************************************************************)
C8_UpdatePipNeverRaises ==
    /\ raised_in # "update_pip"
    /\ (OpIdx("pip_conf") # {} /\ pc \notin {"pip_primary", "pip_download", "pip_fallback"})
        => pip_ret \in {"True", "False"}
    /\ Cardinality(OpIdx("update_pip_ret")) = (IF pip_ret = None THEN 0 ELSE 1)
    /\ (pc = "done" /\ pip_ret = "False") => (status = "returned" /\ retval = penv_dir)

C8_Witness ==
    /\ pc = "done"
    /\ pip_ret = "False"
    /\ status = "returned"
    /\ HasRes("download_get_pip", {None})
    /\ HasRes("pip_fallback", {"OSError"})

(***************************************************************************)
(* Reading the log after the build                                         *)
(***************************************************************************)
\* The Environment Builder succeeded and create_core_penv went on.
BuiltAndOver == pc = "done" /\ result_dir = penv_dir

StateFileBy(i) == <<"state.json", i>> \in fs

(***************************************************************************)
(* C9, as claimed: whenever the build succeeded, init_state is called      *)
(* once, then update_pip once, after the state file was written, and       *)
(* create_core_penv returns penv_dir.                                      *)
(***************************************************************************)
C9_InitThenUpdateThenReturn ==
    BuiltAndOver =>
        /\ Cardinality(OpIdx("init_state")) = 1
        /\ Cardinality(OpIdx("pip_conf")) = 1
        /\ \A i \in OpIdx("init_state") : \A j \in OpIdx("pip_conf") : i < j
        /\ status = "returned"
        /\ retval = penv_dir

(***************************************************************************)
(* C9, amended: whenever the build succeeded, init_state is called exactly *)
(* once.  If it returns, update_pip is called exactly once, strictly after *)
(* the state file was written, and create_core_penv returns penv_dir       *)
(* whether update_pip returned True or False.  If init_state raises (its   *)
(* version query or its write of the state file fails), the exception      *)
(* leaves create_core_penv and update_pip is not called.                   *)
(***************************************************************************)
C9_InitThenUpdateUnlessInitRaises ==
    /\ \A j \in OpIdx("pip_conf") :
        \E i \in OpIdx("init_state") : i < j /\ log[i].res = "ok" /\ StateFileBy(i)
    /\ pc = "update_pip" => \E i \in OpIdx("init_state") : StateFileBy(i)
    /\ status = "returned" => pip_ret \in {"True", "False"}
    /\ BuiltAndOver =>
        /\ Cardinality(OpIdx("init_state")) = 1
        /\ \A i \in OpIdx("init_state") :
            IF log[i].res = "ok"
            THEN /\ Cardinality(OpIdx("pip_conf")) = 1
                 /\ Cardinality(OpIdx("update_pip_ret")) = 1
                 /\ status = "returned"
                 /\ retval = penv_dir
            ELSE /\ OpIdx("pip_conf") = {}
                 /\ pip_ret = None
                 /\ status = "raised"
                 /\ raised_in = "init_state"
                 /\ exc = log[i].res

C9_Witness ==
    /\ BuiltAndOver
    /\ status = "returned"
    /\ retval = penv_dir
    /\ pip_ret = "False"
    /\ \E i \in OpIdx("init_state") : StateFileBy(i)

(***************************************************************************)
(* Reading the log of the portable fallback                                *)
(***************************************************************************)
NoDiscoveredSuccess == \A i \in SuccessIdx : log[i].py = PORTABLE

FetchIdx == OpIdx("fetch_portable_python")

\* create_virtualenv ran once, start to end, with the portable interpreter.
PortableSequenceOnce ==
    /\ Cardinality(OpIdxOf("create_virtualenv_ret", PORTABLE)) = 1
    /\ Len(LocalsOf(PORTABLE)) >= 1
    /\ \A j \in 1..Len(LocalsOf(PORTABLE)) : LocalsOf(PORTABLE)[j].arg = venv_cmd_options[j]
    /\ Cardinality(OpIdxOf("remote", PORTABLE)) =
        (IF \A j \in 1..Len(LocalsOf(PORTABLE)) : LocalsOf(PORTABLE)[j].res = "failed"
         THEN 1 ELSE 0)

(***************************************************************************)
(* C10, as claimed: whenever no discovered interpreter produced an         *)
(* environment and a portable interpreter can be fetched,                  *)
(* create_core_penv fetches it and runs the candidate sequence once with   *)
(* it.                                                                     *)
(***************************************************************************)
C10_PortableFetchedWheneverAvailable ==
    (pc = "done" /\ NoDiscoveredSuccess /\ portable_available) =>
        /\ Cardinality(FetchIdx) = 1
        /\ PortableSequenceOnce

(***************************************************************************)
(* C10, amended: whenever no discovered interpreter produced an            *)
(* environment, the installer is not itself running on the portable        *)
(* interpreter (python.is_portable() is false) and a portable interpreter  *)
(* can be fetched, create_core_penv fetches it and runs the candidate      *)
(* sequence once with it.  The fetch is attempted at most once, only after *)
(* every discovered interpreter was tried and none succeeded, and never    *)
(* when python.is_portable() is true.                                      *)
(***************************************************************************)
C10_PortableFetchedUnlessPortable ==
    /\ (pc = "done" /\ NoDiscoveredSuccess /\ portable_available /\ ~is_portable) =>
        /\ Cardinality(FetchIdx) = 1
        /\ PortableSequenceOnce
    /\ Cardinality(FetchIdx) <= 1
    /\ is_portable => FetchIdx = {}
    /\ \A f \in FetchIdx :
        /\ \A i \in SuccessIdx : i > f
        /\ \A m \in 1..Len(pythons) :
            \E i \in OpIdxOf("create_virtualenv_ret", pythons[m]) : i < f /\ log[i].res = None
    /\ \A j \in AttemptIdx :
        log[j].py = PORTABLE => \E f \in FetchIdx : f < j /\ log[f].res = "path"

C10_Witness ==
    /\ pc = "done"
    /\ Len(pythons) = 2
    /\ \E f \in FetchIdx : log[f].res = "path"
    /\ OpIdxOf("remote_run", PORTABLE) # {}
    /\ status = "returned"

(***************************************************************************)
(* Reading the files under penv_dir                                        *)
(***************************************************************************)
StateFiles == {f \in fs : f[1] = "state.json"}

InitOkIdx == {i \in OpIdx("init_state") : log[i].res = "ok"}

(***************************************************************************)
(* C14, as claimed: in a run whose build succeeded the state record is     *)
(* created exactly once, straight after the build and before update_pip,   *)
(* and no step of update_pip writes or deletes state.json.                 *)
(***************************************************************************)
C14_StateCreatedExactlyOnce ==
    /\ BuiltAndOver => Cardinality(InitOkIdx) = 1
    /\ \A i \in InitOkIdx :
        /\ log[i - 1] = Ev("create_virtualenv_ret", log[i - 1].py, "", penv_dir)
        /\ \A j \in OpIdx("pip_conf") : i < j
        /\ StateFiles = {<<"state.json", i>>}

(***************************************************************************)
(* C14, amended: within one run the state record is created at most once:  *)
(* exactly once, straight after the successful build and before update_pip *)
(* starts, when init_state returns, and not at all when init_state raises. *)
(* It is never mutated afterward: no step of update_pip writes or deletes  *)
(* state.json.                                                             *)
(***************************************************************************)
C14_StateCreatedOnceIfInitReturns ==
    /\ Cardinality(InitOkIdx) <= 1
    /\ (BuiltAndOver /\ status = "returned") => Cardinality(InitOkIdx) = 1
    /\ (BuiltAndOver /\ status = "raised") =>
        /\ InitOkIdx = {}
        /\ \A f \in StateFiles : f[2] = 0
    /\ \A i \in InitOkIdx :
        /\ log[i - 1] = Ev("create_virtualenv_ret", log[i - 1].py, "", penv_dir)
        /\ \A j \in OpIdx("pip_conf") : i < j
        /\ StateFiles = {<<"state.json", i>>}

C14_Witness ==
    /\ pc = "done"
    /\ status = "returned"
    /\ HasRes("pip_conf", {"ok"})
    /\ HasRes("download_get_pip", {"path"})
    /\ HasRes("pip_fallback", {"CalledProcessError"})
    /\ \E i \in InitOkIdx : StateFiles = {<<"state.json", i>>}

(***************************************************************************)
(* C15, as claimed: whenever the primary upgrade command fails, whether it *)
(* exits non-zero or cannot be launched, the fallback is attempted exactly *)
(* once: the installer script is downloaded, then run.                     *)
(***************************************************************************)
C15_FallbackOnAnyPrimaryFailure ==
    \A i \in OpIdx("pip_primary") :
        (log[i].res \in PipFailures /\ PipOver) =>
            /\ Cardinality(OpIdx("download_get_pip")) = 1
            /\ Cardinality(OpIdx("pip_fallback")) = 1
            /\ log[i + 1].op = "download_get_pip"
            /\ log[i + 2].op = "pip_fallback"

(***************************************************************************)
(* C15, amended: whenever the primary upgrade command exits with a         *)
(* non-zero status the fallback is attempted exactly once: the installer   *)
(* script is downloaded, then run with the environment's interpreter,      *)
(* whatever the download returned.  When the primary command cannot be     *)
(* launched, no fallback is attempted and update_pip returns False.        *)
(***************************************************************************)
C15_FallbackOnNonZeroExitOnly ==
    /\ Cardinality(OpIdx("download_get_pip")) <= 1
    /\ Cardinality(OpIdx("pip_fallback")) <= 1
    /\ \A i \in OpIdx("pip_primary") :
        /\ (log[i].res = "CalledProcessError" /\ PipOver) =>
            /\ log[i + 1].op = "download_get_pip"
            /\ log[i + 2].op = "pip_fallback"
            /\ log[i + 2].py = ENV_PYTHON
        /\ log[i].res = "OSError" =>
            /\ OpIdx("download_get_pip") = {}
            /\ OpIdx("pip_fallback") = {}
            /\ pip_ret = "False"
    /\ \A j \in OpIdx("download_get_pip") \cup OpIdx("pip_fallback") :
        HasRes("pip_primary", {"CalledProcessError"})

C15_Witness ==
    /\ pc = "done"
    /\ HasRes("pip_primary", {"CalledProcessError"})
    /\ HasRes("download_get_pip", {None})
    /\ HasRes("pip_fallback", {"ok"})

(***************************************************************************)
(* C16: the remote strategy clears penv_dir, then downloads the script,    *)
(* then runs it; the script is run only after a download that returned a   *)
(* path; when the download returns None the strategy fails without a       *)
(* process being launched and penv_dir stays empty.                        *)
(***************************************************************************)
C16_RemoteClearDownloadRun ==
    /\ pc = "remote_download" => fs = {}
    /\ \A r \in OpIdx("remote") :
        r + 1 <= Len(log) =>
            /\ log[r + 1].op = "download_virtualenv"
            /\ log[r + 1].py = log[r].py
            /\ log[r + 1].res = None =>
                /\ r + 2 <= Len(log)
                /\ log[r + 2] = Ev("create_virtualenv_ret", log[r].py, "", None)
            /\ (log[r + 1].res # None /\ r + 2 <= Len(log)) =>
                /\ log[r + 2].op = "remote_run"
                /\ log[r + 2].py = log[r].py
    /\ \A d \in OpIdx("download_virtualenv") : d > 1 /\ log[d - 1].op = "remote"
    /\ \A i \in OpIdx("remote_run") :
        /\ i > 2
        /\ log[i - 1].op = "download_virtualenv"
        /\ log[i - 1].res = "path"
        /\ log[i - 2].op = "remote"
    /\ (/\ Len(log) >= 2
        /\ log[Len(log)].op = "create_virtualenv_ret"
        /\ log[Len(log) - 1].op = "download_virtualenv") => fs = {}

C16_Witness ==
    /\ Len(log) >= 2
    /\ log[Len(log)].op = "create_virtualenv_ret"
    /\ log[Len(log) - 1] = Ev("download_virtualenv", PORTABLE, "virtualenv.pyz", None)
    /\ leftover
    /\ pc = "done"

(***************************************************************************)
(* C17: in a single run, once a strategy was attempted, state.json is      *)
(* present only if the latest attempt succeeded and it was written after   *)
(* that attempt; it never lies beside files of a failed attempt or of an   *)
(* earlier run; a run that ends in build failure after an attempt leaves   *)
(* no state.json, whatever was there before.                               *)
(***************************************************************************)
C17_StateFileOnlyAfterSuccess ==
    LET attempts == AttemptIdx
    IN  attempts # {} =>
            LET a == CHOOSE x \in attempts : \A y \in attempts : y <= x
            IN  /\ StateFiles # {} =>
                    /\ \/ log[a].op = "local" /\ log[a].res = "ok"
                       \/ /\ log[a].op = "remote"
                          /\ a + 2 <= Len(log)
                          /\ log[a + 2].op = "remote_run"
                          /\ log[a + 2].res = "ok"
                    /\ \A f \in StateFiles : f[2] > a
                    /\ \A f \in fs : f[1] \notin {"partial", "stale"}
                /\ (pc = "done" /\ exc = "PIOInstallerException") => StateFiles = {}

C17_Witness ==
    /\ pc = "done"
    /\ exc = "PIOInstallerException"
    /\ Cardinality(AttemptIdx) = 12
    /\ leftover
    /\ \E f \in fs : f[1] = "partial"
    /\ StateFiles = {}

(***************************************************************************)
(* C18: pip.conf is written before the primary command or the fallback is  *)
(* launched, so penv_dir holds pip.conf whenever update_pip returns True;  *)
(* when the write fails neither is attempted and update_pip returns False. *)
(***************************************************************************)
C18_PipConfBeforeUpgrade ==
    /\ \A i \in OpIdx("pip_primary") \cup OpIdx("download_get_pip") \cup OpIdx("pip_fallback") :
        \E c \in OpIdx("pip_conf") : c < i /\ log[c].res = "ok"
    /\ pip_ret = "True" => \E f \in fs : f[1] = "pip.conf"
    /\ HasRes("pip_conf", {"OSError"}) =>
        /\ OpIdx("pip_primary") = {}
        /\ OpIdx("download_get_pip") = {}
        /\ OpIdx("pip_fallback") = {}
        /\ pip_ret = "False"

C18_Witness ==
    /\ pc = "done"
    /\ pip_ret = "True"
    /\ HasRes("pip_fallback", {"ok"})
    /\ \E f \in fs : f[1] = "pip.conf"

(***************************************************************************)
(* C19: for n discovered interpreters a run makes at most 6*(n+1) strategy *)
(* attempts and at most one portable fetch, retries no strategy for an     *)
(* interpreter, starts no attempt before the previous one is over, and     *)
(* ends, returning or raising, when every external call returns.           *)
(***************************************************************************)
C19_Bounded ==
    /\ Cardinality(AttemptIdx) <= 6 * (Len(pythons) + 1)
    /\ Cardinality(FetchIdx) <= 1
    /\ \A c \in Tried :
        /\ Cardinality({log[i].arg : i \in OpIdxOf("local", c)})
            = Cardinality(OpIdxOf("local", c))
        /\ Cardinality(OpIdxOf("remote", c)) <= 1
    /\ \A r \in OpIdx("remote") : \A j \in AttemptIdx :
        j > r => \E e \in OpIdxOf("create_virtualenv_ret", log[r].py) : r < e /\ e < j
    /\ pc = "done" <=> status \in {"returned", "raised"}

C19_TerminatesWithinBound == []C19_Bounded /\ <>(pc = "done")

C19_Witness ==
    /\ pc = "done"
    /\ Len(pythons) = 2
    /\ Cardinality(AttemptIdx) = 18
    /\ Cardinality(FetchIdx) = 1

(***************************************************************************)
(* The State Recorder: init_state's record, save_state and load_state.     *)
(* A file's content is the sequence of JSON tokens json.dump writes;       *)
(* json.load parses that sequence back into a value.                       *)
(***************************************************************************)
\* The latest time stamp a record carries.
MaxCreatedOn == 10

\* The largest number of State Recorder operations in one behaviour.
MaxStateOps == 3

\* JSON values: integers, strings, and objects as ordered <<key, value>> pairs.
JInt(n) == [t |-> "int", n |-> n, s |-> "", o |-> <<>>]
JStr(s) == [t |-> "str", n |-> 0, s |-> s, o |-> <<>>]
JObj(o) == [t |-> "obj", n |-> 0, s |-> "", o |-> o]

\* The dictionary init_state builds.
StateRecord(created_on, path, version) ==
    JObj(<< <<"created_on", JInt(created_on)>>,
            <<"python", JObj(<< <<"path", JStr(path)>>,
                                <<"version", JStr(version)>> >>)>>,
            <<"installer_version", JStr("1.2.2")>>,
            <<"platform", JObj(<< <<"platform", JStr("Linux-6.1-x86_64")>>,
                                  <<"release", JStr("6.1")>> >>)>> >>)

StateRecords ==
    {StateRecord(c, "penv/bin/python", v) :
        c \in (MaxCreatedOn - 1)..MaxCreatedOn, v \in {"3.8.10", "3.11.4"}}

Punct(kind) == [k |-> kind, s |-> "", d |-> <<>>]
StrTok(s) == [k |-> "str", s |-> s, d |-> <<>>]
NumTok(d) == [k |-> "num", s |-> "", d |-> d]

\* The decimal digits of a natural number, most significant first.
RECURSIVE Digits(_)
Digits(n) == IF n < 10 THEN <<n>> ELSE Append(Digits(n \div 10), n % 10)

RECURSIVE Number(_)
Number(d) ==
    IF Len(d) = 1 THEN d[1]
    ELSE 10 * Number(SubSeq(d, 1, Len(d) - 1)) + d[Len(d)]

\* json.dump: the text of a value.
RECURSIVE json_dump(_)
RECURSIVE DumpMembers(_)
json_dump(v) ==
    CASE v.t = "int" -> <<NumTok(Digits(v.n))>>
      [] v.t = "str" -> <<StrTok(v.s)>>
      [] v.t = "obj" -> <<Punct("{")>> \o DumpMembers(v.o) \o <<Punct("}")>>

DumpMembers(pairs) ==
    IF pairs = <<>> THEN <<>>
    ELSE <<StrTok(pairs[1][1]), Punct(":")>> \o json_dump(pairs[1][2])
         \o (IF Len(pairs) > 1 THEN <<Punct(",")>> \o DumpMembers(Tail(pairs))
             ELSE <<>>)

ParseFail == [ok |-> FALSE, v |-> JStr(""), rest |-> <<>>]
Parsed(v, rest) == [ok |-> TRUE, v |-> v, rest |-> rest]

\* json.load's decoder: one value from the front of the text.
RECURSIVE ParseValue(_)
RECURSIVE ParseMembers(_, _)
ParseValue(ts) ==
    IF ts = <<>> THEN ParseFail
    ELSE CASE ts[1].k = "num" -> Parsed(JInt(Number(ts[1].d)), Tail(ts))
           [] ts[1].k = "str" -> Parsed(JStr(ts[1].s), Tail(ts))
           [] ts[1].k = "{" ->
                IF Len(ts) >= 2 /\ ts[2].k = "}"
                THEN Parsed(JObj(<<>>), SubSeq(ts, 3, Len(ts)))
                ELSE ParseMembers(Tail(ts), <<>>)
           [] OTHER -> ParseFail

ParseMembers(ts, acc) ==
    IF Len(ts) < 3 \/ ts[1].k # "str" \/ ts[2].k # ":" THEN ParseFail
    ELSE LET pv == ParseValue(SubSeq(ts, 3, Len(ts)))
             members == Append(acc, <<ts[1].s, pv.v>>)
         IN  IF ~pv.ok \/ pv.rest = <<>> THEN ParseFail
             ELSE IF pv.rest[1].k = "}" THEN Parsed(JObj(members), Tail(pv.rest))
             ELSE IF pv.rest[1].k = "," THEN ParseMembers(Tail(pv.rest), members)
             ELSE ParseFail

\* json.load: the whole text is one value, or JSONDecodeError.
json_load(text) ==
    LET p == ParseValue(text)
    IN  IF p.ok /\ p.rest = <<>> THEN [ok |-> TRUE, v |-> p.v]
        ELSE [ok |-> FALSE, v |-> JStr("")]

NoFile == [exists |-> FALSE, text |-> <<>>]
File(text) == [exists |-> TRUE, text |-> text]
Disk(dir, file) == [dir |-> dir, file |-> file]

\* os.path.isfile(state_path)
isfile(disk) == disk.dir /\ disk.file.exists

\* open(state_path, "w") followed by the writes of json.dump.
WriteFile_append(old, text) == File(old.text \o text)

WriteFile(old, text) == File(text)

\* What load_state does to penv_dir.
LoadStateDisk_create(disk) == Disk(TRUE, File(<<>>))

LoadStateDisk(disk) == disk

\* An interrupted write leaves a prefix of a record's text.
InitialDisks ==
    {Disk(FALSE, NoFile), Disk(TRUE, NoFile), Disk(TRUE, File(<<Punct("{")>>))}
    \cup {Disk(TRUE, File(json_dump(s))) : s \in StateRecords}

SrEv(op, ok, v, exception) == [op |-> op, ok |-> ok, v |-> v, exc |-> exception]

\* The variables of one run of create_core_penv, at rest.
MainIdle ==
    /\ pythons = <<>>
    /\ is_portable = FALSE
    /\ portable_available = FALSE
    /\ pc = "done"
    /\ idx = 1
    /\ phase = "loop"
    /\ python_exe = UNBOUND
    /\ k = 1
    /\ result_dir = None
    /\ fs = {}
    /\ log = <<>>
    /\ pip_ret = None
    /\ status = "returned"
    /\ exc = None
    /\ raised_in = None
    /\ retval = None
    /\ leftover = FALSE

SrInit ==
    /\ sr_disk \in InitialDisks
    /\ sr_pre = sr_disk
    /\ sr_log = <<>>
    /\ MainIdle
    /\ RaceIdle

\* save_state(state, penv_dir)
SaveState ==
    /\ Len(sr_log) < MaxStateOps
    /\ \E state \in StateRecords :
        /\ sr_pre' = sr_disk
        /\ IF sr_disk.dir
           THEN /\ sr_disk' = Disk(TRUE, WriteFile(sr_disk.file, json_dump(state)))
                /\ sr_log' = Append(sr_log, SrEv("save_state", TRUE, state, None))
           ELSE /\ sr_disk' = sr_disk
                /\ sr_log' = Append(sr_log, SrEv("save_state", FALSE, state, "OSError"))
    /\ UNCHANGED <<vars, race_vars>>

\* load_state(penv_dir)
LoadState ==
    /\ Len(sr_log) < MaxStateOps
    /\ sr_pre' = sr_disk
    /\ sr_disk' = LoadStateDisk(sr_disk)
    /\ IF ~isfile(sr_disk)
       THEN sr_log' = Append(sr_log, SrEv("load_state", FALSE, JStr(""),
                                          "PIOInstallerException"))
       ELSE LET r == json_load(sr_disk.file.text)
            IN  IF r.ok
                THEN sr_log' = Append(sr_log, SrEv("load_state", TRUE, r.v, None))
                ELSE sr_log' = Append(sr_log, SrEv("load_state", FALSE, JStr(""),
                                                   "JSONDecodeError"))
    /\ UNCHANGED <<vars, race_vars>>

\* A later run clears penv_dir before its strategy.
SrClear ==
    /\ Len(sr_log) < MaxStateOps
    /\ sr_pre' = sr_disk
    /\ sr_disk' = Disk(FALSE, NoFile)
    /\ sr_log' = Append(sr_log, SrEv("safe_remove_dir", TRUE, JStr(""), None))
    /\ UNCHANGED <<vars, race_vars>>

\* A strategy's process creates penv_dir.
SrBuild ==
    /\ Len(sr_log) < MaxStateOps
    /\ sr_pre' = sr_disk
    /\ sr_disk' = Disk(TRUE, sr_disk.file)
    /\ sr_log' = Append(sr_log, SrEv("build", TRUE, JStr(""), None))
    /\ UNCHANGED <<vars, race_vars>>

SrNext ==
    \/ SaveState
    \/ LoadState
    \/ SrClear
    \/ SrBuild

SpecState == SrInit /\ [][SrNext]_sr_vars

\* The positions in sr_log of the operations that wrote or removed state.json.
SrWrites ==
    {i \in 1..Len(sr_log) :
        \/ sr_log[i].op = "save_state" /\ sr_log[i].ok
        \/ sr_log[i].op = "safe_remove_dir"}

SrLastWriteBefore(i) ==
    LET W == {j \in SrWrites : j < i}
    IN  IF W = {} THEN 0 ELSE CHOOSE j \in W : \A m \in W : m <= j

SrLast == sr_log[Len(sr_log)]

\* C11: a load_state whose latest preceding write of state.json is a
\* save_state that returned yields a record equal to the one that save_state
\* was given, whatever the file held before it (earlier records included).
C11_LoadReturnsLatestSaved ==
    \A i \in 1..Len(sr_log) :
        LET w == SrLastWriteBefore(i)
        IN  (sr_log[i].op = "load_state" /\ w > 0 /\ sr_log[w].op = "save_state")
                => sr_log[i].ok /\ sr_log[i].v = sr_log[w].v

C11_Witness ==
    /\ Len(sr_log) = 3
    /\ sr_log[1].op = "save_state" /\ sr_log[1].ok
    /\ sr_log[2].op = "save_state" /\ sr_log[2].ok
    /\ sr_log[1].v # sr_log[2].v
    /\ sr_log[1].v.o[1][2].n # sr_log[2].v.o[1][2].n
    /\ sr_log[3].op = "load_state" /\ sr_log[3].ok
    /\ sr_log[3].v = sr_log[2].v

\* C12: a load_state that finds no state.json raises PIOInstallerException and
\* leaves penv_dir as it was: neither the file nor the directory is created.
C12_MissingFileRaisesAndKeepsDisk ==
    (sr_log # <<>> /\ SrLast.op = "load_state" /\ ~isfile(sr_pre))
        => /\ ~SrLast.ok
           /\ SrLast.exc = "PIOInstallerException"
           /\ sr_disk = sr_pre

C12_Witness ==
    /\ sr_log # <<>>
    /\ SrLast.op = "load_state"
    /\ ~sr_pre.dir
    /\ SrLast.exc = "PIOInstallerException"
    /\ ~sr_disk.dir /\ ~sr_disk.file.exists

(***************************************************************************)
(* Two runs of create_core_penv against the same penv_dir.  Each run finds *)
(* one interpreter and is itself started by a portable one, so it tries    *)
(* the five local commands and then the remote script once.  A step of a   *)
(* run is one external call; the runs' steps interleave freely.            *)
(***************************************************************************)
Runs == {1, 2}

RaceLocks_held(r, positions) ==
    \A o \in Runs \ {r} : positions[o] \notin {"init_state", "update_pip", "return"}

\* What create_with_local_venv and create_with_remote_venv wait for before
\* util.safe_remove_dir(penv_dir): nothing.
RaceLocks(r, positions) == TRUE

\* util.safe_remove_dir(penv_dir) of run r: whoever wrote the files.
RaceClearFiles(r, files) == safe_remove_dir(files)

\* The interpreter of the environment and the directory are there.
HasEnv(files) == \E f \in files : f[1] = "env"
HasState(files) == \E f \in files : f[1] = "state.json"
Complete(files) == HasEnv(files) /\ HasState(files)

RaceInit ==
    /\ r_pc = [r \in Runs |-> "local_clear"]
    /\ r_k = [r \in Runs |-> 1]
    /\ r_result = [r \in Runs |-> None]
    /\ r_status = [r \in Runs |-> "running"]
    /\ r_clobbered = [r \in Runs |-> FALSE]
    /\ r_report = [r \in Runs |-> None]
    /\ r_disk \in {{}, {<<"env", 0>>, <<"state.json", 0>>}}
    /\ r_last = [op |-> None, run |-> 0]
    /\ MainIdle
    /\ SrIdle

\* The runs that have built the environment and not yet returned.
Built(r) == r_result[r] # None /\ r_status[r] = "running"

\* safe_remove_dir(penv_dir) before a local command or before the download.
RaceClear(r) ==
    /\ r_pc[r] \in {"local_clear", "remote_clear"}
    /\ RaceLocks(r, r_pc)
    /\ r_disk' = RaceClearFiles(r, r_disk)
    /\ r_clobbered' = [o \in Runs |-> r_clobbered[o] \/ (o # r /\ Built(o))]
    /\ r_pc' = [r_pc EXCEPT ![r] = IF @ = "local_clear" THEN "local_run"
                                   ELSE "remote_download"]
    /\ r_last' = [op |-> "safe_remove_dir", run |-> r]
    /\ UNCHANGED <<r_k, r_result, r_status, r_report>>
    /\ UNCHANGED <<vars, sr_vars>>

\* subprocess.run of the r_k[r]-th local command.
RaceLocalRun(r) ==
    /\ r_pc[r] = "local_run"
    /\ \E res \in ProcResults :
        LET nx == LocalStep(r_k[r], res = "ok")
        IN  /\ r_disk' = r_disk \cup ProcessFiles(res, FALSE, r)
            /\ r_k' = [r_k EXCEPT ![r] = nx.k]
            /\ IF nx.to = "return"
               THEN /\ r_result' = [r_result EXCEPT ![r] = penv_dir]
                    /\ r_pc' = [r_pc EXCEPT ![r] = "check_result"]
               ELSE IF nx.to = "next"
               THEN /\ r_pc' = [r_pc EXCEPT ![r] = "local_clear"]
                    /\ UNCHANGED r_result
               ELSE /\ r_pc' = [r_pc EXCEPT ![r] = IF TryRemoteOnLocalError
                                                  THEN "remote_clear"
                                                  ELSE "check_result"]
                    /\ UNCHANGED r_result
    /\ r_last' = [op |-> "local", run |-> r]
    /\ UNCHANGED <<r_status, r_clobbered, r_report>>
    /\ UNCHANGED <<vars, sr_vars>>

\* util.download_file of the virtualenv script.
RaceDownload(r) ==
    /\ r_pc[r] = "remote_download"
    /\ \E path \in DownloadResults :
        r_pc' = [r_pc EXCEPT ![r] = IF RemoteAfterDownload(path) = "raise"
                                    THEN "check_result" ELSE "remote_run"]
    /\ r_last' = [op |-> "download_virtualenv", run |-> r]
    /\ UNCHANGED <<r_k, r_result, r_status, r_clobbered, r_report, r_disk>>
    /\ UNCHANGED <<vars, sr_vars>>

\* subprocess.run of the downloaded script.
RaceRemoteRun(r) ==
    /\ r_pc[r] = "remote_run"
    /\ \E res \in ProcResults :
        /\ r_disk' = r_disk \cup ProcessFiles(res, FALSE, r)
        /\ r_result' = [r_result EXCEPT ![r] = IF res = "ok" THEN penv_dir ELSE None]
    /\ r_pc' = [r_pc EXCEPT ![r] = "check_result"]
    /\ r_last' = [op |-> "remote_run", run |-> r]
    /\ UNCHANGED <<r_k, r_status, r_clobbered, r_report>>
    /\ UNCHANGED <<vars, sr_vars>>

\* if not result_dir: raise
RaceCheckResult(r) ==
    /\ r_pc[r] = "check_result"
    /\ IF BuildFailed(r_result[r])
       THEN /\ r_status' = [r_status EXCEPT ![r] = "raised"]
            /\ r_pc' = [r_pc EXCEPT ![r] = "done"]
       ELSE /\ r_pc' = [r_pc EXCEPT ![r] = PostBuild[1]]
            /\ UNCHANGED r_status
    /\ r_last' = [op |-> "check_result", run |-> r]
    /\ UNCHANGED <<r_k, r_result, r_clobbered, r_report, r_disk>>
    /\ UNCHANGED <<vars, sr_vars>>

\* init_state: the version query runs the environment's interpreter, and
\* save_state opens state.json inside penv_dir.
RaceInitState(r) ==
    /\ r_pc[r] = "init_state"
    /\ \E res \in (IF HasEnv(r_disk) THEN InitStateResults ELSE {"OSError"}) :
        IF res = "ok"
        THEN /\ r_disk' = {f \in r_disk : f[1] # "state.json"} \cup {<<"state.json", r>>}
             /\ r_pc' = [r_pc EXCEPT ![r] = PostBuildNext("init_state")]
             /\ UNCHANGED r_status
        ELSE /\ r_status' = [r_status EXCEPT ![r] = "raised"]
             /\ r_pc' = [r_pc EXCEPT ![r] = "done"]
             /\ UNCHANGED r_disk
    /\ r_last' = [op |-> "init_state", run |-> r]
    /\ UNCHANGED <<r_k, r_result, r_clobbered, r_report>>
    /\ UNCHANGED <<vars, sr_vars>>

\* update_pip: pip.conf is written when penv_dir is there; every exception
\* ends in return False.
RaceUpdatePip(r) ==
    /\ r_pc[r] = "update_pip"
    /\ \E res \in (IF r_disk # {} THEN {"ok", "OSError"} ELSE {"OSError"}) :
        /\ UpdatePipCatches(res) \/ res = "ok"
        /\ r_disk' = (IF res = "ok"
                      THEN {f \in r_disk : f[1] # "pip.conf"} \cup {<<"pip.conf", r>>}
                      ELSE r_disk)
    /\ r_pc' = [r_pc EXCEPT ![r] = PostBuildNext("update_pip")]
    /\ r_last' = [op |-> "update_pip", run |-> r]
    /\ UNCHANGED <<r_k, r_result, r_status, r_clobbered, r_report>>
    /\ UNCHANGED <<vars, sr_vars>>

\* return result_dir
RaceReturn(r) ==
    /\ r_pc[r] = "return"
    /\ r_status' = [r_status EXCEPT ![r] = "returned"]
    /\ r_report' = [r_report EXCEPT ![r] = IF Complete(r_disk) THEN "complete"
                                           ELSE "incomplete"]
    /\ r_pc' = [r_pc EXCEPT ![r] = "done"]
    /\ r_last' = [op |-> "return", run |-> r]
    /\ UNCHANGED <<r_k, r_result, r_clobbered, r_disk>>
    /\ UNCHANGED <<vars, sr_vars>>

RaceNext ==
    \E r \in Runs :
        \/ RaceClear(r)
        \/ RaceLocalRun(r)
        \/ RaceDownload(r)
        \/ RaceRemoteRun(r)
        \/ RaceCheckResult(r)
        \/ RaceInitState(r)
        \/ RaceUpdatePip(r)
        \/ RaceReturn(r)

SpecRace == RaceInit /\ [][RaceNext]_race_vars

\* C13: nothing holds a run back at its clearing step, whatever the other run
\* has built; the step removes everything under penv_dir, the other run's
\* environment and state.json included; and a run returns penv_dir while
\* penv_dir lacks the environment or state.json only when another run cleared
\* penv_dir after this run had built it.
C13_ClearIsUnguardedAndTotal ==
    /\ \A r \in Runs :
        r_pc[r] \in {"local_clear", "remote_clear"} => ENABLED RaceClear(r)
    /\ r_last.op = "safe_remove_dir" => r_disk = {}
    /\ \A r \in Runs : r_report[r] = "incomplete" => r_clobbered[r]

\* Run 1 built the environment and wrote state.json, run 2 then cleared
\* penv_dir, and run 1 returned penv_dir although nothing of it is left.
C13_Witness ==
    /\ r_last = [op |-> "return", run |-> 1]
    /\ r_status[1] = "returned"
    /\ r_result[1] = penv_dir
    /\ r_report[1] = "incomplete"
    /\ r_clobbered[1]
    /\ r_status[2] = "running"
    /\ ~HasEnv(r_disk) /\ ~HasState(r_disk)

====
